---- MODULE Spec2Model ----
(***************************************************************************)
(* Model of scripts/download_apple_music.py: the cookie path validator     *)
(* validate_cookies_path and the main() coroutine that calls it before it  *)
(* wires the gamdl objects and drives the download loop.                   *)
(*                                                                         *)
(* The filesystem is a finite tree of nodes (regular file, directory,      *)
(* fifo, symbolic link).  Path.resolve() is modelled as CPython's          *)
(* posixpath.realpath in non-strict mode followed by abspath; Path.is_file *)
(* is modelled as a stat() that follows symbolic links the way the kernel  *)
(* does.  The two walk a path differently ("x/.." is dropped lexically by  *)
(* realpath once x does not exist or is not a directory), and the model    *)
(* keeps that difference.                                                  *)
(*                                                                         *)
(* Filesystems with a cycle of symbolic links are not among the initial    *)
(* states: what Path.resolve() does on a cycle depends on the interpreter  *)
(* version (RuntimeError before 3.13), not on this repository's code.      *)
(***************************************************************************)
EXTENDS Naturals, Sequences, FiniteSets, TLC

VARIABLES
    fs,         \* the filesystem: absolute path (sequence of names) -> node
    cwd,        \* the process's current working directory (absolute path)
    importCwd,  \* the working directory when the module was imported
    opened,     \* the absolute paths whose content has been opened
    arg,        \* the path the caller under study passes to the validator
    last,       \* the most recent call of validate_cookies_path, while no
                \* chdir and no write has followed it
    prior,      \* the outcome of the call before it, when that call had the
                \* same input and the same environment
    pc,         \* main(): the statement to run next
    log,        \* main(): the gamdl calls made so far, in order
    url_info,   \* main(): what downloader.get_url_info returned
    download_queue, \* main(): what downloader.get_download_queue returned
    downloads,  \* main(): the items handed to downloader.download, in order
    mainExc     \* main(): the exception that left main, if any

vars == <<fs, cwd, importCwd, opened, arg, last, prior,
          pc, log, url_info, download_queue, downloads, mainExc>>

mainVars == <<pc, log, url_info, download_queue, downloads, mainExc>>

-----------------------------------------------------------------------------
(* Bounds *)

\* longest path (in components) a caller passes to the validator
MaxParts == 3

\* longest download queue the library returns
MaxQueue == 2

-----------------------------------------------------------------------------
(* Paths and nodes *)

Names == {"t", "cookies.txt", "l"}

\* components a caller's path may hold
Components == Names \cup {".."}

PathText(a, ps) == [abs |-> a, parts |-> ps]

NoTarget == PathText(FALSE, <<>>)

Absent == [kind |-> "none", target |-> NoTarget]
RegularFile == [kind |-> "file", target |-> NoTarget]
Directory == [kind |-> "dir", target |-> NoTarget]
Fifo == [kind |-> "fifo", target |-> NoTarget]
SymLink(t) == [kind |-> "link", target |-> t]

\* the places of the tree that can hold a node
Slots == {<<a>> : a \in Names} \cup {<<a, b>> : a, b \in Names}

Lookup(f, path) ==
    IF path = <<>> THEN Directory
    ELSE IF path \in DOMAIN f THEN f[path] ELSE Absent

Parent(path) == IF path = <<>> THEN <<>> ELSE SubSeq(path, 1, Len(path) - 1)

\* a lookup that follows more symbolic links than this answers ELOOP (the
\* kernel's own limit is larger; no lookup of the model comes near either)
MaxSymlinks == 8

\* The kernel's path walk from directory `at`: every component but the last
\* must lead to a directory, symbolic links are followed (the last one only
\* with `follow`), ".." is the parent of the directory reached.
RECURSIVE Namei(_, _, _, _, _)
Namei(f, at, parts, follow, fuel) ==
    IF parts = <<>> THEN [err |-> "OK", at |-> at]
    ELSE IF Lookup(f, at).kind # "dir"
    THEN [err |-> IF Lookup(f, at).kind = "none" THEN "ENOENT" ELSE "ENOTDIR",
          at |-> at]
    ELSE LET name == Head(parts)
             rest == Tail(parts)
             child == Append(at, name)
             node == Lookup(f, child)
         IN  IF name = "." THEN Namei(f, at, rest, follow, fuel)
             ELSE IF name = ".." THEN Namei(f, Parent(at), rest, follow, fuel)
             ELSE IF node.kind = "none" THEN [err |-> "ENOENT", at |-> child]
             ELSE IF node.kind = "link" /\ (rest # <<>> \/ follow)
             THEN IF fuel = 0 THEN [err |-> "ELOOP", at |-> child]
                  ELSE Namei(f, IF node.target.abs THEN <<>> ELSE at,
                             node.target.parts \o rest, follow, fuel - 1)
             ELSE Namei(f, child, rest, follow, fuel)

\* os.stat(p) with the working directory c: the node p leads to
Stat(f, c, p) ==
    LET r == Namei(f, IF p.abs THEN <<>> ELSE c, p.parts, TRUE, MaxSymlinks)
    IN  [err |-> r.err, at |-> r.at,
         kind |-> IF r.err = "OK" THEN Lookup(f, r.at).kind ELSE "none"]

\* os.lstat of an absolute path: the last component is not followed
Lstat(f, path) ==
    LET r == Namei(f, <<>>, path, FALSE, MaxSymlinks)
    IN  IF r.err = "OK" THEN Lookup(f, r.at) ELSE Absent

-----------------------------------------------------------------------------
(* pathlib *)

\* Path(cookies_path): pathlib drops the "." components and keeps ".."
Path(cookies_path) ==
    PathText(cookies_path.abs,
             SelectSeq(cookies_path.parts, LAMBDA x : x # "."))

\* posixpath.normpath of an absolute path: "." dropped, ".." drops the
\* component before it
RECURSIVE NormPath(_, _)
NormPath(done, parts) ==
    IF parts = <<>> THEN done
    ELSE IF Head(parts) = "." THEN NormPath(done, Tail(parts))
    ELSE IF Head(parts) = ".." THEN NormPath(Parent(done), Tail(parts))
    ELSE NormPath(Append(done, Head(parts)), Tail(parts))

\* the dict `seen` of realpath: the links being resolved (None) and the
\* links resolved, each with its result
NoneSeen == [pending |-> {}, done |-> {}]

SeenResult(seen, newpath) == (CHOOSE d \in seen.done : d[1] = newpath)[2]

\* posixpath._joinrealpath(path, rest, strict=False, seen): a component that
\* is no symbolic link (or that lstat cannot find) is appended as it is, ".."
\* drops the last component appended, a symbolic link is replaced by what its
\* target resolves to from the directory holding it; a link met while it is
\* being resolved ends the walk with ok = False and the rest left as it is.
RECURSIVE JoinRealPath(_, _, _, _)
JoinRealPath(f, path, rest, seen) ==
    IF rest.abs THEN JoinRealPath(f, <<>>, PathText(FALSE, rest.parts), seen)
    ELSE IF rest.parts = <<>> THEN [path |-> path, ok |-> TRUE, seen |-> seen]
    ELSE LET name == Head(rest.parts)
             tail == PathText(FALSE, Tail(rest.parts))
             newpath == Append(path, name)
             st == Lstat(f, newpath)
         IN  IF name = "." THEN JoinRealPath(f, path, tail, seen)
             ELSE IF name = ".."
             THEN JoinRealPath(f, Parent(path), tail, seen)
             ELSE IF st.kind # "link"
             THEN JoinRealPath(f, newpath, tail, seen)
             ELSE IF \E d \in seen.done : d[1] = newpath
             THEN JoinRealPath(f, SeenResult(seen, newpath), tail, seen)
             ELSE IF newpath \in seen.pending
             THEN [path |-> newpath \o tail.parts, ok |-> FALSE,
                   seen |-> seen]
             ELSE LET r == JoinRealPath(f, path, st.target,
                              [seen EXCEPT !.pending = @ \cup {newpath}])
                  IN  IF ~r.ok
                      THEN [path |-> r.path \o tail.parts, ok |-> FALSE,
                            seen |-> r.seen]
                      ELSE JoinRealPath(f, r.path, tail,
                              [pending |-> r.seen.pending \ {newpath},
                               done |-> r.seen.done
                                          \cup {<<newpath, r.path>>}])

\* os.path.realpath(p) with the working directory c: the walk, then abspath
RealPath(f, c, p) ==
    LET r == JoinRealPath(f, IF p.abs THEN <<>> ELSE c, p, NoneSeen)
    IN  [path |-> NormPath(<<>>, r.path), ok |-> r.ok]

\* a resolve() that only makes the path absolute (os.path.abspath): symbolic
\* links are left in place
ResolveAbsolute(f, c, p) == NormPath(<<>>, (IF p.abs THEN <<>> ELSE c) \o p.parts)

\* Path.resolve(): the realpath of the path
Resolve(f, c, p) == RealPath(f, c, p).path

\* an existence test (Path.exists) in place of the regular-file test
IsFileExists(f, path) == Stat(f, <<>>, PathText(TRUE, path)).kind # "none"

\* Path.is_file() of an absolute path: stat() follows symbolic links, and
\* ENOENT, ENOTDIR and ELOOP answer False
IsFile(f, path) == Stat(f, <<>>, PathText(TRUE, path)).kind = "file"

-----------------------------------------------------------------------------
(* validate_cookies_path *)

\* the default value of the parameter cookies_path
DefaultCookiesPath == PathText(FALSE, <<"cookies.txt">>)

MsgPrefix == "Missing Apple Music cookies file at '"
MsgSuffix ==
    "'. Create a Netscape-format cookies.txt export before running downloads."

\* the f-string of the raise statement: prefix, str(path), suffix
Message(path) == [prefix |-> MsgPrefix, path |-> path, suffix |-> MsgSuffix]

NoMessage == [prefix |-> "", path |-> <<>>, suffix |-> ""]

\* another exception class in the raise statement
RaisedClassRuntime == "RuntimeError"

\* the class of the exception the validator raises
RaisedClass == "FileNotFoundError"

\* the base class of each built-in exception class involved
ExcBase(c) ==
    CASE c = "FileNotFoundError" -> "OSError"
      [] c = "OSError" -> "Exception"
      [] c = "RuntimeError" -> "Exception"
      [] c = "ImportError" -> "Exception"
      [] OTHER -> "BaseException"

\* issubclass(c, handler): whether `except handler` catches an exception of
\* class c
RECURSIVE IsSubclass(_, _)
IsSubclass(c, handler) ==
    IF c = handler THEN TRUE
    ELSE IF c = "BaseException" THEN FALSE
    ELSE IsSubclass(ExcBase(c), handler)

\* the function returns path
Returned(path) ==
    [kind |-> "return", path |-> path, exc |-> "", msg |-> NoMessage]

\* the function raises exc(msg)
Raised(exc, msg) ==
    [kind |-> "raise", path |-> <<>>, exc |-> exc, msg |-> msg]

\* the path the is_file test and the message use
TestedPath(f, c, cookies_path) == Resolve(f, c, Path(cookies_path))

\* the function without its is_file test: the resolved path is returned
\* whatever is there
OutcomeNoCheck(f, c, cookies_path) == Returned(TestedPath(f, c, cookies_path))

\* the message built from the path as supplied, made absolute, instead of
\* the resolved path
OutcomeSuppliedPath(f, c, cookies_path) ==
    LET path == TestedPath(f, c, cookies_path)
        supplied == ResolveAbsolute(f, c, Path(cookies_path))
    IN  IF ~IsFile(f, path)
        THEN Raised(RaisedClass, Message(supplied))
        ELSE Returned(path)

\* validate_cookies_path(cookies_path) in filesystem f with working
\* directory c: what it returns or raises
Outcome(f, c, cookies_path) ==
    LET path == TestedPath(f, c, cookies_path)
    IN  IF ~IsFile(f, path)
        THEN Raised(RaisedClass, Message(path))
        ELSE Returned(path)

\* the working directory captured once, when the module is imported
GetcwdAtImport == importCwd

\* os.getcwd() as Path.resolve() reads it during the call
Getcwd == cwd

NoOutcome == [kind |-> "none", path |-> <<>>, exc |-> "", msg |-> NoMessage]

NoCall ==
    [called |-> FALSE, noarg |-> FALSE, input |-> NoTarget, cwd |-> <<>>,
     fsBefore |-> <<>>, openedBefore |-> {}, outcome |-> NoOutcome]

NoPrior == [repeat |-> FALSE, outcome |-> NoOutcome]

Call(noarg, cookies_path) ==
    [called |-> TRUE, noarg |-> noarg, input |-> cookies_path, cwd |-> cwd,
     fsBefore |-> fs, openedBefore |-> opened,
     outcome |-> Outcome(fs, Getcwd, cookies_path)]

\* the call before this one, when it had the same input (last is forgotten
\* as soon as the environment changes)
PriorOf(cookies_path) ==
    IF last.called /\ last.input = cookies_path
    THEN [repeat |-> TRUE, outcome |-> last.outcome]
    ELSE NoPrior

\* a validator that opens the file it has found
validate_cookies_path_reading(cookies_path) ==
    /\ last' = Call(FALSE, cookies_path)
    /\ prior' = PriorOf(cookies_path)
    /\ opened' = IF last'.outcome.kind = "return"
                 THEN opened \cup {last'.outcome.path} ELSE opened
    /\ UNCHANGED <<fs, cwd, importCwd, arg>>
    /\ UNCHANGED mainVars

\* a validator that creates the missing file (path.touch()) before it raises
validate_cookies_path_touching(cookies_path) ==
    LET path == TestedPath(fs, cwd, cookies_path)
    IN  /\ last' = Call(FALSE, cookies_path)
        /\ prior' = PriorOf(cookies_path)
        /\ fs' = IF /\ path \in Slots
                    /\ Lookup(fs, path).kind = "none"
                    /\ Lookup(fs, Parent(path)).kind = "dir"
                 THEN [fs EXCEPT ![path] = RegularFile] ELSE fs
        /\ UNCHANGED <<cwd, importCwd, opened, arg>>
        /\ UNCHANGED mainVars

\* a call validate_cookies_path(cookies_path): neither branch of the function
\* writes to the filesystem or opens a file
validate_cookies_path(cookies_path) ==
    /\ last' = Call(FALSE, cookies_path)
    /\ prior' = PriorOf(cookies_path)
    /\ UNCHANGED <<fs, cwd, importCwd, opened, arg>>
    /\ UNCHANGED mainVars

\* a call validate_cookies_path(): the parameter takes its default
validate_cookies_path_noarg ==
    /\ last' = Call(TRUE, DefaultCookiesPath)
    /\ prior' = PriorOf(DefaultCookiesPath)
    /\ UNCHANGED <<fs, cwd, importCwd, opened, arg>>
    /\ UNCHANGED mainVars

-----------------------------------------------------------------------------
(* The test module's own filesystem operations *)

\* tmp_path, the directory pytest hands to a test
tmp_path == <<"t">>

\* cookies_file.write_text(...): creates (or rewrites) the regular file
\* tmp_path / "cookies.txt"
WriteText ==
    LET cookies_file == Append(tmp_path, "cookies.txt")
    IN  /\ Lookup(fs, cookies_file).kind \in {"none", "file"}
        /\ cookies_file \notin opened
        /\ fs' = [fs EXCEPT ![cookies_file] = RegularFile]
        /\ opened' = opened \cup {cookies_file}
        /\ last' = NoCall
        /\ prior' = NoPrior
        /\ UNCHANGED <<cwd, importCwd, arg>>
        /\ UNCHANGED mainVars

\* monkeypatch.chdir(d)
Chdir(d) ==
    /\ Lookup(fs, d).kind = "dir"
    /\ d # cwd
    /\ cwd' = d
    /\ last' = NoCall
    /\ prior' = NoPrior
    /\ UNCHANGED <<fs, importCwd, opened, arg>>
    /\ UNCHANGED mainVars

-----------------------------------------------------------------------------
(* Initial states *)

\* what a symbolic link of the initial filesystems may point to
LinkTargets ==
    { PathText(FALSE, <<"cookies.txt">>), PathText(FALSE, <<"l">>),
      PathText(TRUE, <<"t">>), PathText(FALSE, <<"missing">>),
      PathText(FALSE, <<"missing", "..", "cookies.txt">>) }

\* tmp_path is a directory; cookies.txt and l inside it vary
InitialFilesystems ==
    { [s \in Slots |->
          IF s = tmp_path THEN Directory
          ELSE IF s = Append(tmp_path, "cookies.txt") THEN c
          ELSE IF s = Append(tmp_path, "l") THEN l
          ELSE Absent] :
      c \in {Absent, RegularFile, Directory, Fifo}
              \cup {SymLink(t) : t \in LinkTargets},
      l \in {Absent} \cup {SymLink(t) : t \in LinkTargets} }

\* neither the kernel's lookup nor realpath runs into a cycle of symbolic
\* links on a node of f
Acyclic(f) ==
    \A s \in Slots :
        /\ Stat(f, <<>>, PathText(TRUE, s)).err # "ELOOP"
        /\ RealPath(f, <<>>, PathText(TRUE, s)).ok

RECURSIVE SeqsUpTo(_, _)
SeqsUpTo(S, n) ==
    IF n = 0 THEN {<<>>}
    ELSE LET shorter == SeqsUpTo(S, n - 1)
         IN  shorter \cup
             {Append(q, x) : q \in {r \in shorter : Len(r) = n - 1}, x \in S}

\* the paths a caller passes: relative or absolute, of at most MaxParts
\* components, or such a relative path written with a leading "./"
Inputs ==
    {PathText(a, ps) : a \in BOOLEAN, ps \in SeqsUpTo(Components, MaxParts)}
    \cup {PathText(FALSE, <<".">> \o ps) :
            ps \in SeqsUpTo(Components, MaxParts - 1)}

-----------------------------------------------------------------------------
(* main() *)

\* the items a download queue may hold
Items == {"item1", "item2"}

NoQueue == [set |-> FALSE, none |-> FALSE, items |-> <<>>]

\* what downloader.get_download_queue may return: None or a list
Queues ==
    {[set |-> TRUE, none |-> TRUE, items |-> <<>>]}
    \cup {[set |-> TRUE, none |-> FALSE, items |-> q] :
            q \in SeqsUpTo(Items, MaxQueue)}

\* `if download_queue:` is false for None and for an empty list
Truthy(q) == q.set /\ ~q.none /\ q.items # <<>>

\* a call into gamdl: it returns, or it raises and the exception leaves main
LibraryCall(event, next) ==
    /\ log' = Append(log, event)
    /\ \/ pc' = next /\ mainExc' = mainExc
       \/ pc' = "raised" /\ mainExc' = "LibraryError"

\* the function-level imports of gamdl
ImportGamdl ==
    /\ pc = "import"
    /\ \/ pc' = "validate" /\ mainExc' = mainExc
       \/ pc' = "raised" /\ mainExc' = "ImportError"
    /\ UNCHANGED <<fs, cwd, importCwd, opened, arg, last, prior,
                   log, url_info, download_queue, downloads>>

\* a main that catches the validator's exception and goes on
ValidateStepSwallow ==
    /\ pc = "validate"
    /\ last' = Call(TRUE, DefaultCookiesPath)
    /\ prior' = PriorOf(DefaultCookiesPath)
    /\ pc' = "from_netscape_cookies"
    /\ mainExc' = mainExc
    /\ UNCHANGED <<fs, cwd, importCwd, opened, arg,
                   log, url_info, download_queue, downloads>>

\* cookies_path = validate_cookies_path(): main has no try, an exception of
\* the validator leaves it
ValidateStep ==
    /\ pc = "validate"
    /\ last' = Call(TRUE, DefaultCookiesPath)
    /\ prior' = PriorOf(DefaultCookiesPath)
    /\ IF last'.outcome.kind = "raise"
       THEN pc' = "raised" /\ mainExc' = last'.outcome.exc
       ELSE pc' = "from_netscape_cookies" /\ mainExc' = mainExc
    /\ UNCHANGED <<fs, cwd, importCwd, opened, arg,
                   log, url_info, download_queue, downloads>>

\* AppleMusicApi.from_netscape_cookies(cookies_path=str(cookies_path))
FromNetscapeCookies ==
    /\ pc = "from_netscape_cookies"
    /\ LibraryCall("AppleMusicApi.from_netscape_cookies", "api_setup")
    /\ opened' = opened \cup {last.outcome.path}
    /\ UNCHANGED <<fs, cwd, importCwd, arg, last, prior,
                   url_info, download_queue, downloads>>

\* await apple_music_api.setup()
ApiSetup ==
    /\ pc = "api_setup"
    /\ LibraryCall("AppleMusicApi.setup", "itunes_api")
    /\ UNCHANGED <<fs, cwd, importCwd, opened, arg, last, prior,
                   url_info, download_queue, downloads>>

\* ItunesApi(...); itunes_api.setup()
ItunesApiSetup ==
    /\ pc = "itunes_api"
    /\ LibraryCall("ItunesApi", "interfaces")
    /\ UNCHANGED <<fs, cwd, importCwd, opened, arg, last, prior,
                   url_info, download_queue, downloads>>

\* the four interface objects
Interfaces ==
    /\ pc = "interfaces"
    /\ LibraryCall("AppleMusicInterface", "base_downloader")
    /\ UNCHANGED <<fs, cwd, importCwd, opened, arg, last, prior,
                   url_info, download_queue, downloads>>

\* AppleMusicBaseDownloader(); base_downloader.setup()
BaseDownloaderSetup ==
    /\ pc = "base_downloader"
    /\ LibraryCall("AppleMusicBaseDownloader", "downloaders")
    /\ UNCHANGED <<fs, cwd, importCwd, opened, arg, last, prior,
                   url_info, download_queue, downloads>>

\* the specialised downloaders and the main AppleMusicDownloader
Downloaders ==
    /\ pc = "downloaders"
    /\ LibraryCall("AppleMusicDownloader", "get_url_info")
    /\ UNCHANGED <<fs, cwd, importCwd, opened, arg, last, prior,
                   url_info, download_queue, downloads>>

\* url_info = downloader.get_url_info(URL); if url_info: ...
GetUrlInfo ==
    /\ pc = "get_url_info"
    /\ log' = Append(log, "get_url_info")
    /\ \/ /\ url_info' = "info"
          /\ pc' = "get_download_queue"
          /\ mainExc' = mainExc
       \/ /\ url_info' = "none"
          /\ pc' = "done"
          /\ mainExc' = mainExc
       \/ /\ url_info' = url_info
          /\ pc' = "raised"
          /\ mainExc' = "LibraryError"
    /\ UNCHANGED <<fs, cwd, importCwd, opened, arg, last, prior,
                   download_queue, downloads>>

\* download_queue = await downloader.get_download_queue(url_info);
\* if download_queue: the loop is entered
GetDownloadQueue ==
    /\ pc = "get_download_queue"
    /\ log' = Append(log, "get_download_queue")
    /\ \/ \E q \in Queues :
             /\ download_queue' = q
             /\ pc' = IF Truthy(q) THEN "download" ELSE "done"
             /\ mainExc' = mainExc
       \/ /\ download_queue' = download_queue
          /\ pc' = "raised"
          /\ mainExc' = "LibraryError"
    /\ UNCHANGED <<fs, cwd, importCwd, opened, arg, last, prior,
                   url_info, downloads>>

\* a loop that stops after its first item
DownloadItemBreak ==
    /\ pc = "download"
    /\ Len(downloads) < Len(download_queue.items)
    /\ downloads' = Append(downloads, download_queue.items[Len(downloads) + 1])
    /\ log' = Append(log, "download")
    /\ \/ pc' = "done" /\ mainExc' = mainExc
       \/ pc' = "raised" /\ mainExc' = "LibraryError"
    /\ UNCHANGED <<fs, cwd, importCwd, opened, arg, last, prior,
                   url_info, download_queue>>

\* one turn of `for download_item in download_queue:
\*                  await downloader.download(download_item)`
DownloadItem ==
    /\ pc = "download"
    /\ Len(downloads) < Len(download_queue.items)
    /\ downloads' = Append(downloads, download_queue.items[Len(downloads) + 1])
    /\ log' = Append(log, "download")
    /\ \/ /\ pc' = IF Len(downloads') = Len(download_queue.items)
                   THEN "done" ELSE "download"
          /\ mainExc' = mainExc
       \/ /\ pc' = "raised"
          /\ mainExc' = "LibraryError"
    /\ UNCHANGED <<fs, cwd, importCwd, opened, arg, last, prior,
                   url_info, download_queue>>

InitCommon ==
    /\ fs \in {f \in InitialFilesystems : Acyclic(f)}
    /\ opened = {}
    /\ last = NoCall
    /\ prior = NoPrior
    /\ pc = "import"
    /\ log = <<>>
    /\ url_info = "unset"
    /\ download_queue = NoQueue
    /\ downloads = <<>>
    /\ mainExc = ""

\* the validator called by a test or another caller, any number of times
Init ==
    /\ InitCommon
    /\ cwd = <<>>
    /\ importCwd = cwd
    /\ arg \in Inputs

Next ==
    \/ validate_cookies_path(arg)
    \/ validate_cookies_path_noarg
    \/ WriteText
    \/ \E d \in {<<>>, tmp_path} : Chdir(d)

Spec == Init /\ [][Next]_vars

\* one run of the script: asyncio.run(main())
InitMain ==
    /\ InitCommon
    /\ cwd \in {<<>>, tmp_path}
    /\ importCwd = cwd
    /\ arg = DefaultCookiesPath

NextMain ==
    \/ ImportGamdl
    \/ ValidateStep
    \/ FromNetscapeCookies
    \/ ApiSetup
    \/ ItunesApiSetup
    \/ Interfaces
    \/ BaseDownloaderSetup
    \/ Downloaders
    \/ GetUrlInfo
    \/ GetDownloadQueue
    \/ DownloadItem

MainSpec == InitMain /\ [][NextMain]_vars

-----------------------------------------------------------------------------
(* Properties *)

\* the directory a path of the most recent call starts from
StartOf(call) == IF call.input.abs THEN <<>> ELSE call.cwd

\* the path of the most recent call as the kernel looks it up
LastStat == Stat(last.fsBefore, last.cwd, last.input)

\* nothing exists at the path of the most recent call: the kernel's lookup,
\* not following a final symbolic link, finds no node
LastNothingExists ==
    Namei(last.fsBefore, StartOf(last), last.input.parts, FALSE,
          MaxSymlinks).err # "OK"

\* the resolved absolute form of the path of the most recent call
LastResolved == Resolve(last.fsBefore, last.cwd, Path(last.input))

\* the path of the most recent call, made absolute without resolving links
LastSupplied == NormPath(<<>>, StartOf(last) \o last.input.parts)

LastRaisedNotFound ==
    /\ last.outcome.kind = "raise"
    /\ last.outcome.exc = "FileNotFoundError"

NotFoundMessage(path) ==
    [prefix |-> "Missing Apple Music cookies file at '",
     path |-> path,
     suffix |->
       "'. Create a Netscape-format cookies.txt export before running downloads."]

\* C1 as stated: whenever nothing exists at p, validate_cookies_path(p) fails
\* with the not-found error and the message contains the resolved form of p.
C1_Original ==
    (last.called /\ LastNothingExists) =>
        /\ LastRaisedNotFound
        /\ last.outcome.msg.path = LastResolved

\* C1 amended: whenever nothing exists at the resolved absolute form of p,
\* validate_cookies_path(p) does not return: it fails with the not-found
\* error and the message contains the resolved absolute form of p.
C1_ResolvedMissingRaises ==
    (last.called /\ Lstat(last.fsBefore, LastResolved).kind = "none") =>
        /\ LastRaisedNotFound
        /\ last.outcome.msg.path = LastResolved

C1_Witness ==
    /\ last.called
    /\ ~last.noarg
    /\ LastNothingExists
    /\ Lstat(last.fsBefore, LastResolved).kind = "none"
    /\ ".." \in {last.input.parts[i] : i \in DOMAIN last.input.parts}
    /\ LastRaisedNotFound

\* C2: whenever p leads to an existing regular file (directly, through
\* relative segments or through symbolic links), validate_cookies_path(p)
\* returns, and returns exactly the absolute link-free path of that file.
C2_FileIsReturnedResolved ==
    (last.called /\ LastStat.kind = "file") =>
        last.outcome = Returned(LastStat.at)

C2_Witness ==
    /\ last.called
    /\ LastStat.kind = "file"
    /\ ".." \in {last.input.parts[i] : i \in DOMAIN last.input.parts}
    /\ LastStat.at # LastSupplied
    /\ last.outcome.kind = "return"

\* C3 as stated: whenever p leads to no regular file (a directory, another
\* kind of node, a symbolic link to one of these or to nothing, or nothing
\* at all), validate_cookies_path(p) fails with the not-found error.
C3_Original ==
    (last.called /\ LastStat.kind # "file") => LastRaisedNotFound

\* C3 amended: whenever the resolved absolute form of p is a directory,
\* another node that is no regular file, or names nothing, the call fails
\* with one and the same not-found error and message; a p the system itself
\* resolves to a node that is no regular file never returns; and a call
\* returns only when a regular file is at the resolved path.
C3_NonFileRaisesAlike ==
    last.called =>
        /\ Lstat(last.fsBefore, LastResolved).kind # "file" =>
              last.outcome =
                  Raised("FileNotFoundError", NotFoundMessage(LastResolved))
        /\ LastStat.kind \in {"dir", "fifo"} => LastRaisedNotFound
        /\ last.outcome.kind = "return" =>
              Lstat(last.fsBefore, last.outcome.path).kind = "file"

C3_Witness ==
    /\ last.called
    /\ Lstat(last.fsBefore, StartOf(last) \o last.input.parts).kind = "link"
    /\ LastStat.kind = "dir"
    /\ LastRaisedNotFound

\* C4 as stated: the exception the validator raises is of a kind of its own,
\* which a handler for I/O errors (OSError, and so the not-found error of any
\* other filesystem operation) does not catch.
C4_Original ==
    (last.called /\ last.outcome.kind = "raise") =>
        /\ ~IsSubclass(last.outcome.exc, "OSError")
        /\ last.outcome.exc # "FileNotFoundError"

\* C4 amended: the exception the validator raises is the built-in
\* FileNotFoundError: a caller catches it by its class, and the same handler,
\* like one for OSError, also catches the not-found error of any other
\* filesystem operation.
C4_RaisesBuiltinNotFound ==
    (last.called /\ last.outcome.kind = "raise") =>
        /\ last.outcome.exc = "FileNotFoundError"
        /\ IsSubclass(last.outcome.exc, "OSError")

C4_Witness ==
    /\ last.called
    /\ last.outcome.kind = "raise"
    /\ ~last.noarg

\* C5: a call with no argument has the outcome of a call with the relative
\* name cookies.txt, resolved against the working directory of the moment of
\* the call.
C5_DefaultIsCookiesTxtAtCallTime ==
    (last.called /\ last.noarg) =>
        last.outcome =
            Outcome(last.fsBefore, last.cwd, PathText(FALSE, <<"cookies.txt">>))

C5_Witness ==
    /\ last.called
    /\ last.noarg
    /\ last.cwd # importCwd
    /\ last.outcome = Returned(<<"t", "cookies.txt">>)

C7_CallLeavesFilesystemAlone ==
    last.called =>
        /\ fs = last.fsBefore
        /\ opened = last.openedBefore

C7_Witness ==
    /\ last.called
    /\ last.outcome.kind = "return"
    /\ opened # {}
    /\ prior.repeat

\* C8: a call that repeats the call before it, with the same input and with
\* no chdir and no write in between, has the same outcome as that call.
C8_RepeatedCallSameOutcome ==
    prior.repeat => last.outcome = prior.outcome

C8_Witness ==
    /\ prior.repeat
    /\ ~last.noarg
    /\ last.outcome.kind = "raise"
    /\ Lstat(fs, LastResolved).kind = "none"

\* C9: in a run of main every call into gamdl is preceded by a call of the
\* validator that returned; when the validator fails its exception leaves
\* main, and the run makes no gamdl call, looks up no URL, fetches no queue
\* and starts no download.
C9_ValidateBeforeLibrary ==
    /\ (log # <<>> \/ url_info # "unset" \/ download_queue.set
            \/ downloads # <<>>) =>
          (last.called /\ last.outcome.kind = "return")
    /\ (last.called /\ last.outcome.kind = "raise") =>
          /\ pc = "raised"
          /\ mainExc = "FileNotFoundError"
          /\ log = <<>>
          /\ url_info = "unset"
          /\ ~download_queue.set
          /\ downloads = <<>>

C9_Witness ==
    /\ pc = "raised"
    /\ last.called
    /\ last.outcome.kind = "raise"
    /\ Lookup(fs, Append(cwd, "cookies.txt")).kind = "dir"

IsPrefix(a, b) == Len(a) <= Len(b) /\ SubSeq(b, 1, Len(a)) = a

====
